---- MODULE Spec2Model ----
(***************************************************************************)
(* A model of netmap: the expiring set (src/src/expiry.rs), the multi-key  *)
(* index (src/src/multimap.rs), the poll cycle and the topology build      *)
(* (src/src/lib.rs), with the collectors of src/src/parsers.rs as the      *)
(* source of the visibility reports.                                       *)
(***************************************************************************)
EXTENDS Integers, Sequences, FiniteSets, TLC

VARIABLES
    now,        \* the monotonic clock read by Instant::now()
    eset,       \* ExpireSet.inner of a stand-alone expiring set
    esIns,      \* history: item -> the expiries it was inserted with
    esPure,     \* history: no expire/remove has run on eset so far
    mm,         \* a stand-alone MultiMap: [next_index, indexes, values]
    mmLast,     \* history: key -> ordinal of the last insertion listing it
    mmData,     \* history: insertion ordinal -> the data last written to it
    mmCount,    \* history: the number of insertions so far
    mmVisits,   \* the callback calls of the last visit_pairs, or NotVisited
    config,     \* Network.config: the configured devices
    devices,    \* Network.devices: MultiMap<MacAddress, Device>
    hashSeed,   \* the iteration order the HashMaps of this process have
    pc,         \* where Network::poll stands: "idle" when it is not running
    pos,        \* the loop variables of Network::poll
    result,     \* how the last poll ended: "none", "running", "ok", "err", "panic"
    polls,      \* the number of poll cycles started
    graph,      \* the output of the last Network::map since the last poll
    hist        \* history of the current poll cycle

esVars == <<eset, esIns, esPure>>
mmVars == <<mm, mmLast, mmData, mmCount, mmVisits>>
netVars == <<config, devices, hashSeed, pc, pos, result, polls, graph, hist>>
vars == <<now, esVars, mmVars, netVars>>

----------------------------------------------------------------------------
(* Bounds *)

\* The clock of the stand-alone expiring set runs over 0..MaxInstant.
MaxInstant == 3

\* The items of the stand-alone expiring set.
Items == {"a", "b"}

Instants == 0..MaxInstant

\* The largest element of a non-empty set of numbers.
SetMax(S) == CHOOSE m \in S : \A y \in S : y <= m

\* The stand-alone MultiMap takes at most MaxRecords insertions.
MaxRecords == 3

\* Its keys, the key lists an insertion may supply, and the record payloads.
Keys == {"k1", "k2", "k3"}
KeyLists == {<<>>, <<"k1">>, <<"k2">>, <<"k1", "k2">>, <<"k2", "k1", "k2">>,
             <<"k1", "k2", "k3">>}
Payloads == {"x", "y"}

----------------------------------------------------------------------------
(* expiry.rs: ExpireSet<T>.  inner is a HashSet<ExpireItem<T>>; ExpireItem *)
(* hashes and compares by item alone, so the set is modelled as a set of   *)
(* [item, expiry] records on which the HashSet operations match by item.   *)

ExpireItem(item, expiry) == [item |-> item, expiry |-> expiry]

\* HashSet::get(&item): the stored entries equal to item (eq is by item).
HashSet_get(inner, item) == {ei \in inner : ei.item = item}

\* HashSet::replace(value): the entry equal to value, if any, is taken out
\* and value is put in.
HashSet_replace(inner, value) ==
    (inner \ HashSet_get(inner, value.item)) \cup {value}

\* ExpireSet::default()
ExpireSet_default == {}

\* ExpireSet::iter(): the items, without their expiries.
ExpireSet_iter(inner) == {ei.item : ei \in inner}

\* Mutant of ExpireSet::insert: the incoming expiry always overwrites.
ExpireSet_insert_overwrite(inner, item, expiry) ==
    HashSet_replace(inner, ExpireItem(item, expiry))

\* ExpireSet::insert(item, expiry)
ExpireSet_insert(inner, item, expiry) ==
    LET found == HashSet_get(inner, item)
        merged == IF found # {}
                  THEN LET old == CHOOSE ei \in found : TRUE
                       IN  IF expiry > old.expiry THEN expiry ELSE old.expiry
                  ELSE expiry
    IN  HashSet_replace(inner, ExpireItem(item, merged))

\* ExpireSet::is_empty()
ExpireSet_is_empty(inner) == inner = {}

\* ExpireSet::contains(&item)
ExpireSet_contains(inner, item) == HashSet_get(inner, item) # {}

\* Mutant of ExpireSet::remove: an item that is not in the set is put in.
ExpireSet_remove_toggle(inner, item) ==
    IF HashSet_get(inner, item) # {}
    THEN inner \ HashSet_get(inner, item)
    ELSE inner \cup {ExpireItem(item, 0)}

\* ExpireSet::remove(&item)
ExpireSet_remove(inner, item) == inner \ HashSet_get(inner, item)

\* ExpireSet::extend_from(other): for item in other.inner { self.insert(..) }
RECURSIVE ExpireSet_extend_from(_, _)
ExpireSet_extend_from(inner, other) ==
    IF other = {} THEN inner
    ELSE LET ei == CHOOSE x \in other : TRUE
         IN  ExpireSet_extend_from(ExpireSet_insert(inner, ei.item, ei.expiry),
                                   other \ {ei})

\* ExpireSet::expire(), with t the value Instant::now() returns: the new
\* inner set is the drained old one filtered by |ei| ei.expiry < now.
ExpireSet_expire(inner, t) == {ei \in inner : ei.expiry < t}

\* The values an ExpireSet<Items> can hold: one entry per item.
ExpireSets ==
    {s \in SUBSET [item : Items, expiry : Instants] :
        \A x \in s, y \in s : x.item = y.item => x = y}

----------------------------------------------------------------------------
(* multimap.rs: MultiMap<K, V>.  indexes and values are HashMaps, modelled *)
(* as functions; a record's identity is its index in values.               *)

None == [some |-> FALSE]
Some(v) == [some |-> TRUE, value |-> v]

\* HashMap::insert(k, v): binds k to v, replacing a binding of k.
HashMap_insert(map, k, v) ==
    [x \in DOMAIN map \cup {k} |-> IF x = k THEN v ELSE map[x]]

\* HashMap::get(k)
HashMap_get(map, k) == IF k \in DOMAIN map THEN Some(map[k]) ELSE None

\* MultiMap::default()
MultiMap_default == [next_index |-> 0, indexes |-> <<>>, values |-> <<>>]

\* The loop of MultiMap::insert: for k in keys { indexes.insert(k, index) }
RECURSIVE MultiMap_bind(_, _, _)
MultiMap_bind(indexes, keys, index) ==
    IF keys = <<>> THEN indexes
    ELSE MultiMap_bind(HashMap_insert(indexes, Head(keys), index),
                       Tail(keys), index)

\* Mutant of MultiMap::insert: a key that is already bound keeps its binding.
MultiMap_insert_keep(m, keys, value) ==
    LET index == m.next_index
        fresh == SelectSeq(keys, LAMBDA k : k \notin DOMAIN m.indexes)
    IN  [next_index |-> index + 1,
         values |-> HashMap_insert(m.values, index, value),
         indexes |-> MultiMap_bind(m.indexes, fresh, index)]

\* Mutant of MultiMap::insert: next_index is not advanced.
MultiMap_insert_no_increment(m, keys, value) ==
    LET index == m.next_index
    IN  [next_index |-> index,
         values |-> HashMap_insert(m.values, index, value),
         indexes |-> MultiMap_bind(m.indexes, keys, index)]

\* MultiMap::insert(keys, value)
MultiMap_insert(m, keys, value) ==
    LET index == m.next_index
    IN  [next_index |-> index + 1,
         values |-> HashMap_insert(m.values, index, value),
         indexes |-> MultiMap_bind(m.indexes, keys, index)]

\* MultiMap::contains_key(key)
MultiMap_contains_key(m, key) == key \in DOMAIN m.indexes

\* MultiMap::values() / iter(): every stored record, once each.
MultiMap_values(m) == DOMAIN m.values

\* MultiMap::get(key): indexes.get(key).and_then(|idx| values.get(idx))
MultiMap_get(m, key) ==
    LET idx == HashMap_get(m.indexes, key)
    IN  IF idx.some THEN HashMap_get(m.values, idx.value) ELSE None

\* The record identity MultiMap::get / get_mut resolves key to.
MultiMap_index(m, key) ==
    LET idx == HashMap_get(m.indexes, key)
    IN  IF idx.some /\ idx.value \in DOMAIN m.values THEN idx ELSE None

\* MultiMap::get_mut(key) followed by a write of value through the reference.
MultiMap_get_mut_set(m, key, value) ==
    LET idx == MultiMap_index(m, key)
    IN  IF idx.some
        THEN [m EXCEPT !.values = HashMap_insert(@, idx.value, value)]
        ELSE m

\* Mutant of the inner loop of visit_pairs: left is read, not removed, so
\* the loop over the rest reaches it too.
RECURSIVE MultiMap_visit_pairs_noremove(_, _)
MultiMap_visit_pairs_noremove(values, calls) ==
    IF Len(values) > 1
    THEN LET left == values[Len(values)]
             rest == SubSeq(values, 1, Len(values) - 1)
         IN  MultiMap_visit_pairs_noremove(rest,
                 calls \o [i \in 1..Len(values) |-> <<left, values[i]>>])
    ELSE calls

\* MultiMap::visit_pairs: values is the Vec collected from values_mut(),
\* calls the callback calls made so far, each <<left, right>>.
RECURSIVE MultiMap_visit_pairs(_, _)
MultiMap_visit_pairs(values, calls) ==
    IF Len(values) > 1
    THEN LET left == values[Len(values)]
             rest == SubSeq(values, 1, Len(values) - 1)
         IN  MultiMap_visit_pairs(rest,
                 calls \o [i \in 1..Len(rest) |-> <<left, rest[i]>>])
    ELSE calls

\* The orders in which a HashMap may yield the elements of S.
Orders(S) ==
    {q \in [1..Cardinality(S) -> S] : \A i, j \in 1..Cardinality(S) :
        q[i] = q[j] => i = j}

\* The stand-alone MultiMap before its first insertion.
NotVisited == <<"none">>

MMIdle ==
    /\ mm = MultiMap_default
    /\ mmLast = [k \in Keys |-> -1]
    /\ mmData = <<>>
    /\ mmCount = 0
    /\ mmVisits = NotVisited

----------------------------------------------------------------------------
(* lib.rs: the configuration, Device, Port and Network::new.               *)

\* Duration::from_secs(5): how long a parsed observation stays valid.
TTL == 5

\* The clock of a Network runs over 0..MaxTime; at most MaxPolls poll cycles.
MaxTime == 6
MaxPolls == 2

\* The orders a HashMap or HashSet may yield its elements in are those of
\* these lists, forwards or backwards.
MacOrder == <<"m1", "m2", "m3", "m4", "u1", "u2", "u3">>
PortOrder == <<"p1", "p2", "px">>
Seeds == {0, 1, 2, 3}

Reverse(seq) == [i \in 1..Len(seq) |-> seq[Len(seq) + 1 - i]]

\* The elements of S in the order the seed gives.
IterOrder(universe, S, seed) ==
    LET fwd == SelectSeq(universe, LAMBDA x : x \in S)
    IN  IF seed = 0 THEN fwd ELSE Reverse(fwd)

IndexOrder(S, seed) ==
    LET top == IF S = {} THEN 0 ELSE SetMax(S)
        fwd == SelectSeq([i \in 1..(top + 1) |-> i - 1], LAMBDA x : x \in S)
    IN  IF seed = 0 THEN fwd ELSE Reverse(fwd)

\* A left fold: op applied to every element of seq in turn.
FoldLeft(op(_, _), base, seq) ==
    LET F[i \in 0..Len(seq)] == IF i = 0 THEN base ELSE op(F[i - 1], seq[i])
    IN  F[Len(seq)]

\* PortConfig: id and the number of port-scoped pollers.
PortConfig(id, pollers) == [id |-> id, pollers |-> pollers]

\* DeviceConfig: id, mac list, ports and the number of device-scoped pollers.
DeviceConfig(id, mac, ports, pollers) ==
    [id |-> id, mac |-> mac, ports |-> ports, pollers |-> pollers]

\* Port::from_config: the name defaults to the id; visible starts empty.
Port_from_config(c) == [name |-> c.id, visible |-> ExpireSet_default]

\* Device::from_config: ports collected into a HashMap keyed by port id.
Device_from_config(c) ==
    [id |-> c.id,
     mac |-> c.mac,
     ports |-> FoldLeft(LAMBDA ports, pc0 :
                            HashMap_insert(ports, pc0.id, Port_from_config(pc0)),
                        <<>>, c.ports)]

\* Network::new: one MultiMap insertion per configured device, keyed by
\* all its MAC addresses, in configuration order.
Network_new(cfg) ==
    FoldLeft(LAMBDA m, c : MultiMap_insert(m, c.mac, Device_from_config(c)),
             MultiMap_default, cfg)

\* Port::can_see(mac): some address of the list is in visible.
Port_can_see(port, mac) ==
    \E i \in 1..Len(mac) : ExpireSet_contains(port.visible, mac[i])

\* The ports of the stored records, as <<record index, port id>>.
PortKeys(m) ==
    UNION {{<<i, p>> : p \in DOMAIN m.values[i].ports} : i \in DOMAIN m.values}

\* The record with the visible set of port k[2] of record k[1] replaced.
SetVisible(m, k, visible) ==
    [m EXCEPT !.values[k[1]].ports[k[2]].visible = visible]

----------------------------------------------------------------------------
(* parsers.rs: the collectors.  A source file is a set of lines; a line is *)
(* a MAC address or text that is none.                                      *)

Macs == {"m1", "m2", "m3", "m4", "u1", "u2", "u3"}

\* MacAddress::from_str(line) succeeds on the lines that are addresses.
IsMacLine(line) == line \in Macs

\* parse_port_data at time t: every line that parses is inserted with
\* expiry t + 5 s, every other line is skipped; the result is always Ok.
parse_port_data(data, t) ==
    LET lines == SelectSeq(MacOrder \o <<"junk">>, LAMBDA l : l \in data)
    IN  FoldLeft(LAMBDA set, line :
                    IF IsMacLine(line)
                    THEN ExpireSet_insert(set, line, t + TTL)
                    ELSE set,
                 ExpireSet_default, lines)

\* parse_device_data at time t: data is a set of <<port, line>>; every
\* line that parses goes to the set of its port, created on first use.
parse_device_data(data, t) ==
    LET entries == {e \in data : IsMacLine(e[2])}
        ports == {e[1] : e \in entries}
    IN  [p \in ports |->
            parse_port_data({e[2] : e \in {x \in entries : x[1] = p}}, t)]

\* What the file of a port-scoped collector may hold when it is read.
PortFiles == {{"junk"}, {"m1", "junk"}, {"m2"}}

\* What the file of a device-scoped collector may hold when it is read.
DeviceFiles ==
    {{}, {<<"p1", "m2">>, <<"p1", "junk">>}, {<<"p2", "u1">>, <<"px", "m2">>},
     {<<"px", "u1">>}}

IoError == [ok |-> FALSE]
Ok(v) == [ok |-> TRUE, value |-> v]

\* File::open and read_to_string: an Err when the file cannot be read,
\* else its content.
PortSources == {IoError} \cup {Ok(d) : d \in PortFiles}
DeviceSources == {IoError} \cup {Ok(d) : d \in DeviceFiles}

\* The well-formed lines of a content, as <<port, MAC>>, and whether the
\* content has a line that is none.
GoodPortLines(port, data) == {<<port, l>> : l \in {x \in data : IsMacLine(x)}}
GoodDeviceLines(data) == {e \in data : IsMacLine(e[2])}
MalformedPortData(data) == \E l \in data : ~IsMacLine(l)
MalformedDeviceData(data) == \E e \in data : ~IsMacLine(e[2])

\* Mutant of PortPoller::poll: a line that does not parse is an error.
PortPoller_poll_strict(src, t) ==
    IF src.ok /\ ~MalformedPortData(src.value)
    THEN Ok(parse_port_data(src.value, t))
    ELSE IoError

\* PortPoller::poll at time t on the outcome src of reading the file: the
\* read error is returned by `?`, else the content is parsed.
PortPoller_poll(src, t) ==
    IF src.ok THEN Ok(parse_port_data(src.value, t)) ELSE IoError

\* DevicePoller::poll at time t.
DevicePoller_poll(src, t) ==
    IF src.ok THEN Ok(parse_device_data(src.value, t)) ELSE IoError

----------------------------------------------------------------------------
(* lib.rs: Network::poll, one action per step of its loops.                *)

NoGraph == [built |-> FALSE]

\* The history of a poll cycle: its time, the entries stale at its start,
\* what the collectors reported, how often each port was swept, the ports
\* merged into, those swept after a merge, the configured ports whose
\* sweep and collectors are through, and per device-scoped collector call
\* the configured ports that were not through yet, and per read of a
\* content with a malformed line its well-formed lines and whether the
\* collector returned Ok, and what device-scoped collectors reported under
\* port ids their record does not have.

NoHist == [t0 |-> 0, stale |-> {}, reported |-> {}, sweeps |-> <<>>,
           merged |-> {}, late |-> {}, done |-> {}, early |-> {},
           malformed |-> {}, unmatched |-> {}]

AtStart == [di |-> 0, pi |-> 0, ki |-> 0, cur |-> 0]

\* The state of the Network variables while another component is studied.
NetIdle ==
    /\ config = <<>>
    /\ devices = MultiMap_default
    /\ hashSeed = 0
    /\ pc = "idle"
    /\ pos = AtStart
    /\ result = "none"
    /\ polls = 0
    /\ graph = NoGraph
    /\ hist = NoHist

ESIdle ==
    /\ eset = ExpireSet_default
    /\ esIns = [x \in Items |-> {}]
    /\ esPure = TRUE

\* Two devices facing each other, each port with one collector.
E2EConfig ==
    <<DeviceConfig("d1", <<"m1">>, <<PortConfig("p1", 1)>>, 0),
      DeviceConfig("d2", <<"m2">>, <<PortConfig("p1", 1)>>, 0)>>

\* A switch with a device-scoped collector, beside a second device.
SwitchConfig ==
    <<DeviceConfig("d1", <<"m1">>, <<PortConfig("p1", 0), PortConfig("p2", 1)>>, 1),
      DeviceConfig("d2", <<"m2">>, <<PortConfig("p1", 1)>>, 0)>>

\* Two devices that list the same MAC and have a port id in common.
SameMacConfig ==
    <<DeviceConfig("d1", <<"m1">>, <<PortConfig("p1", 1)>>, 0),
      DeviceConfig("d2", <<"m1", "m2">>, <<PortConfig("p1", 0)>>, 0)>>

\* Two devices that list the same MAC, the second without ports.
SameMacNoPortConfig ==
    <<DeviceConfig("d1", <<"m1">>, <<PortConfig("p1", 1)>>, 0),
      DeviceConfig("d2", <<"m1">>, <<>>, 0)>>

\* A device that lists one port id twice.
SamePortConfig ==
    <<DeviceConfig("d1", <<"m1">>, <<PortConfig("p1", 1), PortConfig("p1", 1)>>, 0)>>

\* A device without a MAC address.
NoMacConfig == <<DeviceConfig("d1", <<>>, <<>>, 0)>>

\* The configurations polled; the last one has no device at all.
PollConfigs ==
    {E2EConfig, SwitchConfig, SameMacConfig, SameMacNoPortConfig,
     SamePortConfig, NoMacConfig, <<>>}

Init ==
    /\ now = 0
    /\ ESIdle
    /\ MMIdle
    /\ config \in PollConfigs
    /\ devices = Network_new(config)
    /\ hashSeed \in Seeds
    /\ pc = "idle"
    /\ pos = AtStart
    /\ result = "none"
    /\ polls = 0
    /\ graph = NoGraph
    /\ hist = NoHist

\* History: the <<record, port, MAC>> whose expiry is earlier than t.
StaleAt(m, t) ==
    UNION {{<<k[1], k[2], ei.item>> :
                ei \in {x \in m.values[k[1]].ports[k[2]].visible : x.expiry < t}} :
            k \in PortKeys(m)}

\* poll is entered: the cycle's history starts, and the output of an
\* earlier map no longer describes the state.
PollBegin ==
    /\ pc = "idle"
    /\ polls < MaxPolls
    /\ pc' = "device"
    /\ pos' = [AtStart EXCEPT !.di = 1]
    /\ polls' = polls + 1
    /\ result' = "running"
    /\ graph' = NoGraph
    /\ hist' = [t0 |-> now, stale |-> StaleAt(devices, now), reported |-> {},
                sweeps |-> <<>>, merged |-> {}, late |-> {}, done |-> {},
                early |-> {}, malformed |-> {}, unmatched |-> {}]
    /\ UNCHANGED <<now, esVars, mmVars, config, devices, hashSeed>>

\* Mutant of the device loop: the device-scoped pollers run at once and
\* the ports of the device are left out.
PollDevice_pollers_first ==
    /\ pc = "device"
    /\ IF pos.di > Len(config)
       THEN /\ pc' = "idle"
            /\ result' = "ok"
            /\ pos' = AtStart
       ELSE LET mac == config[pos.di].mac
                idx == IF mac = <<>> THEN None
                       ELSE MultiMap_index(devices, Head(mac))
            IN  IF idx.some
                THEN /\ pc' = "device_poller"
                     /\ pos' = [pos EXCEPT !.ki = 1, !.cur = idx.value]
                     /\ UNCHANGED result
                ELSE /\ pc' = "panicked"
                     /\ result' = "panic"
                     /\ UNCHANGED pos
    /\ UNCHANGED <<now, esVars, mmVars, config, devices, hashSeed, polls, graph, hist>>

\* for device_config in config.devices: the record is looked up by the
\* first configured MAC; both unwraps panic on None.  After the last device
\* poll returns Ok(()).
PollDevice ==
    /\ pc = "device"
    /\ IF pos.di > Len(config)
       THEN /\ pc' = "idle"
            /\ result' = "ok"
            /\ pos' = AtStart
       ELSE LET mac == config[pos.di].mac
                idx == IF mac = <<>> THEN None
                       ELSE MultiMap_index(devices, Head(mac))
            IN  IF idx.some
                THEN /\ pc' = "port"
                     /\ pos' = [pos EXCEPT !.pi = 1, !.cur = idx.value]
                     /\ UNCHANGED result
                ELSE /\ pc' = "panicked"
                     /\ result' = "panic"
                     /\ UNCHANGED pos
    /\ UNCHANGED <<now, esVars, mmVars, config, devices, hashSeed, polls, graph, hist>>

\* for port_config in device_config.ports: the port is looked up by id
\* (unwrap panics on None) and swept; after the last port the device-scoped
\* pollers follow.
PollPort ==
    /\ pc = "port"
    /\ IF pos.pi > Len(config[pos.di].ports)
       THEN /\ pc' = "device_poller"
            /\ pos' = [pos EXCEPT !.ki = 1]
            /\ UNCHANGED <<devices, result, hist>>
       ELSE LET k == <<pos.cur, config[pos.di].ports[pos.pi].id>>
            IN  IF k \in PortKeys(devices)
                THEN /\ devices' = SetVisible(devices, k,
                            ExpireSet_expire(
                                devices.values[k[1]].ports[k[2]].visible, now))
                     /\ hist' = [hist EXCEPT
                            !.sweeps = HashMap_insert(@, k,
                                IF k \in DOMAIN @ THEN @[k] + 1 ELSE 1),
                            !.late = IF k \in hist.merged THEN @ \cup {k} ELSE @]
                     /\ pc' = "port_poller"
                     /\ pos' = [pos EXCEPT !.ki = 1]
                     /\ UNCHANGED result
                ELSE /\ pc' = "panicked"
                     /\ result' = "panic"
                     /\ UNCHANGED <<devices, pos, hist>>
    /\ UNCHANGED <<now, esVars, mmVars, config, hashSeed, polls, graph>>

\* Mutant of the ? operator: the port sets are reset before the error is
\* returned.
PollFailed_rollback ==
    /\ pc' = "idle"
    /\ result' = "err"
    /\ pos' = AtStart
    /\ devices' = Network_new(config)

\* poller.poll(&self.root)? on an Err: poll returns it at once; nothing is
\* undone and nothing more is done.
PollFailed ==
    /\ pc' = "idle"
    /\ result' = "err"
    /\ pos' = AtStart
    /\ UNCHANGED devices

\* for poller in port_config.pollers: poll(root)? returns the error to the
\* caller of Network::poll, else the set is merged into the port.
PollPortPoller ==
    /\ pc = "port_poller"
    /\ LET pcfg == config[pos.di].ports[pos.pi]
           k == <<pos.cur, pcfg.id>>
       IN  IF pos.ki > pcfg.pollers
           THEN /\ pc' = "port"
                /\ pos' = [pos EXCEPT !.pi = @ + 1]
                /\ hist' = [hist EXCEPT !.done = @ \cup {<<pos.di, pos.pi>>}]
                /\ UNCHANGED <<devices, result>>
           ELSE \E src \in PortSources :
                    LET out == PortPoller_poll(src, now)
                        h == IF src.ok /\ MalformedPortData(src.value)
                             THEN [hist EXCEPT !.malformed = @ \cup
                                    {[di |-> pos.di, ok |-> out.ok,
                                      good |-> GoodPortLines(pcfg.id, src.value)]}]
                             ELSE hist
                    IN  IF out.ok
                        THEN /\ devices' = SetVisible(devices, k,
                                    ExpireSet_extend_from(
                                        devices.values[k[1]].ports[k[2]].visible,
                                        out.value))
                             /\ hist' = [h EXCEPT
                                    !.reported = @ \cup
                                        {<<pos.di, pcfg.id, m>> :
                                            m \in ExpireSet_iter(out.value)},
                                    !.merged = @ \cup {k}]
                             /\ pos' = [pos EXCEPT !.ki = @ + 1]
                             /\ UNCHANGED <<pc, result>>
                        ELSE PollFailed /\ hist' = h
    /\ UNCHANGED <<now, esVars, mmVars, config, hashSeed, polls, graph>>

\* Mutant of the loop over a device-scoped result: a port id the record
\* does not have gets a new port holding the reported set.
MergeDeviceReport_create(m, cur, report) ==
    FoldLeft(LAMBDA acc, port :
                IF <<cur, port>> \in PortKeys(acc)
                THEN SetVisible(acc, <<cur, port>>,
                        ExpireSet_extend_from(
                            acc.values[cur].ports[port].visible, report[port]))
                ELSE [acc EXCEPT !.values[cur].ports =
                        HashMap_insert(@, port,
                            [name |-> port, visible |-> report[port]])],
             m, IterOrder(PortOrder, DOMAIN report, hashSeed \div 2))

\* The loop over a device-scoped result: a set reported under a port id
\* the record has is merged into that port, any other is dropped.
MergeDeviceReport(m, cur, report) ==
    FoldLeft(LAMBDA acc, port :
                IF <<cur, port>> \in PortKeys(acc)
                THEN SetVisible(acc, <<cur, port>>,
                        ExpireSet_extend_from(
                            acc.values[cur].ports[port].visible, report[port]))
                ELSE acc,
             m, IterOrder(PortOrder, DOMAIN report, hashSeed \div 2))

\* The ids of the ports configured for device di.
ConfiguredPorts(di) ==
    {config[di].ports[i].id : i \in 1..Len(config[di].ports)}

\* The configured ports, as <<device position, port position>>.
AllConfigPorts ==
    UNION {{<<di, pi>> : pi \in 1..Len(config[di].ports)} : di \in 1..Len(config)}

\* History: what a device-scoped result reports for configured ports of di.
ReportedBy(di, report) ==
    UNION {{<<di, p, x>> : x \in ExpireSet_iter(report[p])} :
            p \in (DOMAIN report) \cap ConfiguredPorts(di)}

\* History: what a device-scoped result reports under port ids that
\* record cur does not have.
UnmatchedBy(di, cur, report) ==
    UNION {{<<di, p, x>> : x \in ExpireSet_iter(report[p])} :
            p \in {q \in DOMAIN report : <<cur, q>> \notin PortKeys(devices)}}

\* for poller in device_config.pollers; after the last one the next
\* configured device follows.
PollDevicePoller ==
    /\ pc = "device_poller"
    /\ IF pos.ki > config[pos.di].pollers
       THEN /\ pc' = "device"
            /\ pos' = [pos EXCEPT !.di = @ + 1]
            /\ UNCHANGED <<devices, result, hist>>
       ELSE \E src \in DeviceSources :
                LET out == DevicePoller_poll(src, now)
                    h == IF src.ok /\ MalformedDeviceData(src.value)
                         THEN [hist EXCEPT !.malformed = @ \cup
                                {[di |-> pos.di, ok |-> out.ok,
                                  good |-> GoodDeviceLines(src.value)]}]
                         ELSE hist
                IN  IF out.ok
                    THEN /\ devices' = MergeDeviceReport(devices, pos.cur, out.value)
                         /\ hist' = [h EXCEPT
                                !.early = @ \cup
                                    {<<pos.di, c[1], c[2]>> :
                                        c \in AllConfigPorts \ hist.done},
                                !.reported = @ \cup ReportedBy(pos.di, out.value),
                                !.unmatched = @ \cup
                                    UnmatchedBy(pos.di, pos.cur, out.value),
                                !.merged = @ \cup
                                    ({<<pos.cur, p>> : p \in DOMAIN out.value}
                                        \cap PortKeys(devices))]
                         /\ pos' = [pos EXCEPT !.ki = @ + 1]
                         /\ UNCHANGED <<pc, result>>
                    ELSE PollFailed /\ hist' = h
    /\ UNCHANGED <<now, esVars, mmVars, config, hashSeed, polls, graph>>

\* Instant::now() is monotonic.  Time passes between two poll cycles; a
\* cycle itself is short against the 5 s an observation lives.
Tick ==
    /\ pc = "idle"
    /\ now < MaxTime
    /\ now' = now + 1
    /\ UNCHANGED <<esVars, mmVars, netVars>>

----------------------------------------------------------------------------
(* lib.rs: Network::map.  The DOT output is modelled by its content: the   *)
(* nodes in creation order (node_auto numbers them), the edges in emission *)
(* order, and the two lookup tables the passes share.                      *)

\* The orders the maps of this process iterate in: bit 0 of the seed is
\* the order of the device records and of the MAC sets, bit 1 that of the
\* port maps.
DeviceOrder(m, seed) == IndexOrder(DOMAIN m.values, seed % 2)
PortsOrder(device, seed) == IterOrder(PortOrder, DOMAIN device.ports, seed \div 2)
MacsOrder(visible, seed) == IterOrder(MacOrder, ExpireSet_iter(visible), seed % 2)

\* Mutant of the innermost loops of the first pass: the sets of the ports
\* that do see the device are removed, instead of those that do not.
PruneByOther_seen(visible, device, other, seed) ==
    FoldLeft(LAMBDA acc, q :
                IF Port_can_see(other.ports[q], device.mac)
                THEN FoldLeft(LAMBDA acc2, mac : ExpireSet_remove(acc2, mac),
                              acc, MacsOrder(other.ports[q].visible, seed))
                ELSE acc,
             visible, PortsOrder(other, seed))

\* for other_port in other.ports.values(): if it cannot see the device,
\* every MAC it sees is removed from the port being pruned.
PruneByOther(visible, device, other, seed) ==
    FoldLeft(LAMBDA acc, q :
                IF ~Port_can_see(other.ports[q], device.mac)
                THEN FoldLeft(LAMBDA acc2, mac : ExpireSet_remove(acc2, mac),
                              acc, MacsOrder(other.ports[q].visible, seed))
                ELSE acc,
             visible, PortsOrder(other, seed))

\* Mutant of the loop body: the owner of a MAC is looked up in the copy
\* being pruned, not in self.devices.
PrunePort_reads_copy(self, work, k, seed) ==
    LET device == work.values[k[1]]
        visible == device.ports[k[2]].visible
        pruned == FoldLeft(LAMBDA acc, mac :
                              LET other == MultiMap_get(work, mac)
                              IN  IF other.some
                                  THEN PruneByOther(acc, device, other.value, seed)
                                  ELSE acc,
                           visible, MacsOrder(visible, seed))
    IN  SetVisible(work, k, pruned)

\* The body of the loop over the ports: visible is cloned, and for each of
\* its MACs the owner is looked up in self.devices (not in the copy).
PrunePort(self, work, k, seed) ==
    LET device == work.values[k[1]]
        visible == device.ports[k[2]].visible
        pruned == FoldLeft(LAMBDA acc, mac :
                              LET other == MultiMap_get(self, mac)
                              IN  IF other.some
                                  THEN PruneByOther(acc, device, other.value, seed)
                                  ELSE acc,
                           visible, MacsOrder(visible, seed))
    IN  SetVisible(work, k, pruned)

\* First pass: devices = self.devices.clone(), then every port of every
\* record of the copy is pruned.
PrunePass(self, seed) ==
    FoldLeft(LAMBDA work, i :
                FoldLeft(LAMBDA w, p : PrunePort(self, w, <<i, p>>, seed),
                         work, PortsOrder(work.values[i], seed)),
             self, DeviceOrder(self, seed))

NewBuild == [nodes |-> <<>>, edges |-> <<>>, device_nodes |-> <<>>,
             port_nodes |-> <<>>, panic |-> FALSE]

Node(kind, dev, port, count) ==
    [kind |-> kind, dev |-> dev, port |-> port, count |-> count]

Edge(kind, a, b) == [kind |-> kind, a |-> a, b |-> b]

\* node_auto(): the new node gets the next number.
AddNode(b, node) == [b EXCEPT !.nodes = Append(@, node)]

AddEdge(b, edge) == [b EXCEPT !.edges = Append(@, edge)]

\* Node generation for one device: a cluster with the device node, a point
\* node per non-empty port and an edge to it, or a bare device node.
DeviceNodes(b, work, i, seed) ==
    LET device == work.values[i]
        b1 == AddNode(b, Node("device", i, "", 0))
        device_id == Len(b1.nodes)
        b2 == [b1 EXCEPT !.device_nodes = HashMap_insert(@, device.id, device_id)]
    IN  IF \E p \in DOMAIN device.ports :
                ~ExpireSet_is_empty(device.ports[p].visible)
        THEN FoldLeft(LAMBDA acc, p :
                        IF ~ExpireSet_is_empty(device.ports[p].visible)
                        THEN LET a1 == AddNode(acc, Node("port", i, p, 0))
                                 port_id == Len(a1.nodes)
                                 a2 == [a1 EXCEPT !.port_nodes =
                                          HashMap_insert(@, <<device.id, p>>, port_id)]
                             IN  AddEdge(a2, Edge("cluster", device_id, port_id))
                        ELSE acc,
                      b2, PortsOrder(device, seed))
        ELSE b2

\* Mutant of the search: the port map is walked backwards once a graph
\* has been built, as if each build had an iteration order of its own.
FindPort_flipping(device, mac, seed) ==
    LET order == IF graph.built THEN Reverse(PortsOrder(device, seed))
                 ELSE PortsOrder(device, seed)
        seeing == SelectSeq(order, LAMBDA p : Port_can_see(device.ports[p], mac))
    IN  IF seeing = <<>> THEN None ELSE Some(Head(seeing))

\* ports.iter().find(|(_i, p)| p.can_see(&mac)): the first port in
\* iteration order that sees an address of the list.
FindPort(device, mac, seed) ==
    LET seeing == SelectSeq(PortsOrder(device, seed),
                            LAMBDA p : Port_can_see(device.ports[p], mac))
    IN  IF seeing = <<>> THEN None ELSE Some(Head(seeing))

\* Mutant of the endpoint rule: the edge always attaches to the device node.
Endpoint_device_only(b, device, other, seed) ==
    HashMap_get(b.device_nodes, device.id)

\* The endpoint of device towards other: the node of the port found, else
\* the device node, both looked up by the device id (unwrap: None panics).
Endpoint(b, device, other, seed) ==
    LET port == FindPort(device, other.mac, seed)
    IN  IF port.some
        THEN HashMap_get(b.port_nodes, <<device.id, port.value>>)
        ELSE HashMap_get(b.device_nodes, device.id)

\* The callback of visit_pairs in the final pass.
Connect(b, work, call, seed) ==
    LET left == work.values[call[1]]
        right == work.values[call[2]]
        left_node == Endpoint(b, left, right, seed)
        right_node == Endpoint(b, right, left, seed)
    IN  IF b.panic THEN b
        ELSE IF left_node.some /\ right_node.some
        THEN AddEdge(b, [kind |-> "adjacency", a |-> left_node.value,
                         b |-> right_node.value, pair |-> call])
        ELSE [b EXCEPT !.panic = TRUE]

\* Mutant of the aggregate pass: an empty port is not skipped.
Aggregate_no_skip(b, work, k) ==
    LET device == work.values[k[1]]
        port == device.ports[k[2]]
        port_node == HashMap_get(b.port_nodes, <<device.id, k[2]>>)
        device_count == Cardinality({mac \in ExpireSet_iter(port.visible) :
                                        ~MultiMap_contains_key(work, mac)})
    IN  IF b.panic THEN b
        ELSE IF ~port_node.some THEN [b EXCEPT !.panic = TRUE]
        ELSE IF device_count = 0 THEN b
        ELSE LET b1 == AddNode(b, Node("aggregate", k[1], k[2], device_count))
             IN  AddEdge(b1, Edge("aggregate", port_node.value, Len(b1.nodes)))

\* The aggregate pass for one port: nothing for an empty port or a count
\* of 0, else one node labelled with the count and one edge to the port.
Aggregate(b, work, k) ==
    LET device == work.values[k[1]]
        port == device.ports[k[2]]
        port_node == HashMap_get(b.port_nodes, <<device.id, k[2]>>)
        device_count == Cardinality({mac \in ExpireSet_iter(port.visible) :
                                        ~MultiMap_contains_key(work, mac)})
    IN  IF b.panic \/ ExpireSet_is_empty(port.visible) THEN b
        ELSE IF ~port_node.some THEN [b EXCEPT !.panic = TRUE]
        ELSE IF device_count = 0 THEN b
        ELSE LET b1 == AddNode(b, Node("aggregate", k[1], k[2], device_count))
             IN  AddEdge(b1, Edge("aggregate", port_node.value, Len(b1.nodes)))

\* Network::map on the polled state self, for the iteration orders of seed.
Network_map(self, seed) ==
    LET work == PrunePass(self, seed)
        order == DeviceOrder(work, seed)
        b1 == FoldLeft(LAMBDA b, i : DeviceNodes(b, work, i, seed), NewBuild, order)
        b2 == FoldLeft(LAMBDA b, call : Connect(b, work, call, seed),
                       b1, MultiMap_visit_pairs(order, <<>>))
        b3 == FoldLeft(LAMBDA b, i :
                          FoldLeft(LAMBDA acc, p : Aggregate(acc, work, <<i, p>>),
                                   b, PortsOrder(work.values[i], seed)),
                       b2, order)
    IN  [built |-> TRUE, panic |-> b3.panic, pruned |-> work.values,
         nodes |-> b3.nodes, edges |-> b3.edges]

\* Mutant of the first pass: it prunes self.devices itself, not a clone.
Network_map_self_inplace(self, seed) == PrunePass(self, seed)

\* self.devices after map(&self): the passes write to the clone made by
\* self.devices.clone() only.
Network_map_self(self, seed) == self

\* The driver calls map between poll cycles.
Map ==
    /\ pc = "idle"
    /\ graph' = Network_map(devices, hashSeed)
    /\ devices' = Network_map_self(devices, hashSeed)
    /\ UNCHANGED <<now, esVars, mmVars, config, hashSeed, pc, pos,
                   result, polls, hist>>

Next ==
    \/ PollBegin \/ PollDevice \/ PollPort \/ PollPortPoller
    \/ PollDevicePoller \/ Tick \/ Map

Spec == Init /\ [][Next]_vars

----------------------------------------------------------------------------
(* Network::map as a function of the polled snapshot: every assignment of  *)
(* visible sets to the ports of a configuration is a state the poll cycles *)
(* can leave behind.                                                       *)

\* Three devices in a chain, a (p1) - (p1) b (p2) - (p1) c.
ChainConfig ==
    <<DeviceConfig("a", <<"m1">>, <<PortConfig("p1", 1)>>, 0),
      DeviceConfig("b", <<"m2">>, <<PortConfig("p1", 1), PortConfig("p2", 1)>>, 0),
      DeviceConfig("c", <<"m3">>, <<PortConfig("p1", 1)>>, 0)>>

\* A device with two addresses and two ports, a neighbour, a device
\* without ports; unconfigured addresses around them.
MixedConfig ==
    <<DeviceConfig("d1", <<"m1", "m3">>, <<PortConfig("p1", 1), PortConfig("p2", 1)>>, 0),
      DeviceConfig("d2", <<"m2">>, <<PortConfig("p1", 1)>>, 0),
      DeviceConfig("d3", <<"m4">>, <<>>, 0)>>

\* One device, one port.
SingleConfig == <<DeviceConfig("d1", <<"m1">>, <<PortConfig("p1", 1)>>, 0)>>

\* Two configured devices with the same id.
SameIdConfig ==
    <<DeviceConfig("d", <<"m1">>, <<PortConfig("p1", 1)>>, 0),
      DeviceConfig("d", <<"m2">>, <<PortConfig("p1", 1)>>, 0)>>

\* The configurations built from, each with the addresses its ports may see.
MapShapes ==
    {[config |-> ChainConfig, seen |-> {"m1", "m2", "m3"}],
     [config |-> MixedConfig, seen |-> {"m1", "m2", "m3", "u1"}],
     [config |-> SingleConfig, seen |-> {"m1", "u1", "u2", "u3"}],
     [config |-> SameIdConfig, seen |-> {"m1", "m2", "u1"}],
     [config |-> <<>>, seen |-> {}]}

\* The polled state in which port k sees the addresses assign[k].
Polled(m, assign) ==
    FoldLeft(LAMBDA acc, k :
                SetVisible(acc, k,
                    parse_port_data(assign[k], 0)),
             m,
             LET keys == PortKeys(m)
             IN  CHOOSE q \in [1..Cardinality(keys) -> keys] :
                    \A i, j \in 1..Cardinality(keys) : q[i] = q[j] => i = j)

MapInit ==
    /\ now = TTL
    /\ ESIdle
    /\ MMIdle
    /\ \E shape \in MapShapes :
          /\ config = shape.config
          /\ \E assign \in [PortKeys(Network_new(shape.config)) -> SUBSET shape.seen] :
                devices = Polled(Network_new(shape.config), assign)
    /\ hashSeed \in Seeds
    /\ pc = "idle"
    /\ pos = AtStart
    /\ result = "ok"
    /\ polls = 1
    /\ graph = NoGraph
    /\ hist = NoHist

MapNext == Map

SpecMap == MapInit /\ [][MapNext]_vars

----------------------------------------------------------------------------
(* The stand-alone MultiMap: insertions, writes through get_mut and        *)
(* visit_pairs in any order.  A stored record is [tag, data]: tag is the   *)
(* ordinal of the insertion that supplied it.                              *)

MMInit ==
    /\ now = 0
    /\ eset = ExpireSet_default
    /\ esIns = [x \in Items |-> {}]
    /\ esPure = TRUE
    /\ MMIdle
    /\ NetIdle

MMInsert ==
    \E keys \in KeyLists, data \in Payloads :
        /\ mmCount < MaxRecords
        /\ mm' = MultiMap_insert(mm, keys, [tag |-> mmCount, data |-> data])
        /\ mmLast' = [k \in Keys |->
                        IF \E i \in 1..Len(keys) : keys[i] = k
                        THEN mmCount ELSE mmLast[k]]
        /\ mmData' = [t \in 0..mmCount |-> IF t = mmCount THEN data ELSE mmData[t]]
        /\ mmCount' = mmCount + 1
        /\ mmVisits' = NotVisited
        /\ UNCHANGED <<now, esVars, netVars>>

MMGetMut ==
    \E key \in Keys, data \in Payloads :
        /\ MultiMap_get(mm, key).some
        /\ mm' = MultiMap_get_mut_set(mm, key,
                    [MultiMap_get(mm, key).value EXCEPT !.data = data])
        /\ mmData' = [mmData EXCEPT ![mmLast[key]] = data]
        /\ mmVisits' = NotVisited
        /\ UNCHANGED <<now, esVars, netVars, mmLast, mmCount>>

MMVisitPairs ==
    \E values \in Orders(MultiMap_values(mm)) :
        /\ mmVisits' = MultiMap_visit_pairs(values, <<>>)
        /\ UNCHANGED <<now, esVars, netVars, mm, mmLast, mmData, mmCount>>

MMNext == MMInsert \/ MMGetMut \/ MMVisitPairs

SpecMM == MMInit /\ [][MMNext]_vars

----------------------------------------------------------------------------
(* The stand-alone expiring set: its operations called in any order while  *)
(* the clock advances.                                                      *)

ESInit ==
    /\ now = 0
    /\ eset = ExpireSet_default
    /\ esIns = [x \in Items |-> {}]
    /\ esPure = TRUE
    /\ MMIdle
    /\ NetIdle

ESInsert ==
    \E item \in Items, expiry \in Instants :
        /\ eset' = ExpireSet_insert(eset, item, expiry)
        /\ esIns' = IF esPure THEN [esIns EXCEPT ![item] = @ \cup {expiry}]
                            ELSE esIns
        /\ UNCHANGED <<now, esPure, mmVars, netVars>>

ESExtendFrom ==
    \E other \in ExpireSets :
        /\ eset' = ExpireSet_extend_from(eset, other)
        /\ esIns' = IF esPure
                     THEN [x \in Items |->
                            esIns[x] \cup {ei.expiry : ei \in HashSet_get(other, x)}]
                     ELSE esIns
        /\ UNCHANGED <<now, esPure, mmVars, netVars>>

ESExpire ==
    /\ eset' = ExpireSet_expire(eset, now)
    /\ esPure' = FALSE
    /\ esIns' = [x \in Items |-> {}]
    /\ UNCHANGED <<now, mmVars, netVars>>

ESRemove ==
    \E item \in Items :
        /\ eset' = ExpireSet_remove(eset, item)
        /\ esPure' = FALSE
        /\ esIns' = [x \in Items |-> {}]
        /\ UNCHANGED <<now, mmVars, netVars>>

\* Instant::now() is monotonic: time passes between any two calls.
ESTick ==
    /\ now < MaxInstant
    /\ now' = now + 1
    /\ UNCHANGED <<esVars, mmVars, netVars>>

ESNext == ESInsert \/ ESExtendFrom \/ ESExpire \/ ESRemove \/ ESTick

SpecES == ESInit /\ [][ESNext]_vars

\* C1: after the sweep (ExpireSet::expire at time now) the set holds exactly
\* the entries that had expiry >= now before it, each with its expiry
\* unchanged; entries with expiry < now are gone, expiry = now is retained.
C1_SweepKeepsUnexpired ==
    [][ESExpire => eset' = {ei \in eset : ei.expiry >= now}]_vars

\* C2: after any sequence of insert and extend_from with no expire or remove
\* in between, the set holds at most one entry per item, it holds exactly
\* the items inserted, and the stored expiry of each item is the maximum of
\* the expiries it was inserted with.
C2_MergeKeepsMaxExpiry ==
    esPure =>
        /\ \A x \in eset, y \in eset : x.item = y.item => x = y
        /\ ExpireSet_iter(eset) = {x \in Items : esIns[x] # {}}
        /\ \A ei \in eset : ei.expiry = SetMax(esIns[ei.item])

\* C2 witness: an item inserted with three different expiries, another with
\* two, and each stored once with the largest.
C2_Witness ==
    /\ esPure
    /\ \E ei \in eset, ej \in eset :
          /\ ei.item # ej.item
          /\ Cardinality(esIns[ei.item]) >= 3
          /\ Cardinality(esIns[ej.item]) >= 2
          /\ ei.expiry = SetMax(esIns[ei.item])
          /\ ej.expiry = SetMax(esIns[ej.item])

----------------------------------------------------------------------------
(* Claims about the poll cycle and the build.                              *)

\* A configuration whose device ids, MAC addresses and port ids are unique
\* and whose devices each have a MAC address.
WellFormed ==
    /\ \A i, j \in 1..Len(config) :
          i # j =>
            /\ config[i].id # config[j].id
            /\ \A a \in 1..Len(config[i].mac), b \in 1..Len(config[j].mac) :
                  config[i].mac[a] # config[j].mac[b]
    /\ \A i \in 1..Len(config) :
          /\ config[i].mac # <<>>
          /\ \A a, b \in 1..Len(config[i].ports) :
                a # b => config[i].ports[a].id # config[i].ports[b].id

\* The record Network::new built from the di-th configured device.
RecordOf(di) == di - 1

CycleDone == pc = "idle" /\ result = "ok" /\ polls >= 1

\* C3: in every poll cycle that completes without error each configured
\* port is swept exactly once, before any collector result is merged into
\* it, so every MAC a collector reported for a configured port during the
\* cycle is in that port's visible set when the cycle ends.
C3_SweptOnceBeforeMerge ==
    (CycleDone /\ hist # NoHist) =>
        \A di \in 1..Len(config) : \A p \in ConfiguredPorts(di) :
            LET k == <<RecordOf(di), p>>
            IN  /\ k \in DOMAIN hist.sweeps
                /\ hist.sweeps[k] = 1
                /\ k \notin hist.late
                /\ \A mac \in Macs :
                      <<di, p, mac>> \in hist.reported =>
                        ExpireSet_contains(
                            devices.values[k[1]].ports[p].visible, mac)

\* On well-formed configurations the cycle does sweep every configured
\* port once, before the merges, and keeps what was reported.
WellFormedSweptOnceBeforeMerge == WellFormed => C3_SweptOnceBeforeMerge

\* C4: a MAC whose expiry is earlier than the time of a poll cycle and
\* that no collector reports for its port during the cycle is absent from
\* the port's visible set after the cycle.
C4_UnreportedStaleMacsDecay ==
    (CycleDone /\ hist # NoHist) =>
        \A s \in hist.stale :
            <<s[1] + 1, s[2], s[3]>> \notin hist.reported =>
                ~ExpireSet_contains(devices.values[s[1]].ports[s[2]].visible, s[3])

\* The chain a - b - c of ChainConfig: a's port sees the MACs of b and c,
\* b's port facing a sees no MAC of a, b's port facing c sees c's MAC.
ChainScenario ==
    /\ config = ChainConfig
    /\ ExpireSet_iter(devices.values[0].ports["p1"].visible) = {"m2", "m3"}
    /\ ~Port_can_see(devices.values[1].ports["p1"], devices.values[0].mac)
    /\ ExpireSet_contains(devices.values[1].ports["p2"].visible, "m3")

\* Some port of b or c that sees no MAC of a sees mac.
SeenBehindBack(mac) ==
    \E i \in {1, 2} : \E p \in DOMAIN devices.values[i].ports :
        /\ ~Port_can_see(devices.values[i].ports[p], devices.values[0].mac)
        /\ ExpireSet_contains(devices.values[i].ports[p].visible, mac)

\* C5 as stated: in the chain scenario pass 1 leaves exactly b's MAC in
\* a's port, whatever the ports of b and c otherwise report.
C5_ChainPrunedToNeighbour ==
    (graph.built /\ ChainScenario) =>
        ExpireSet_iter(graph.pruned[0].ports["p1"].visible) = {"m2"}

\* Where the chain scenario does prune a's port to b's MAC: when b's port
\* that sees c sees no MAC of a either, and no port of b or c that sees no
\* MAC of a reports b's MAC.
ChainPrunedToNeighbourIfUnseen ==
    (/\ graph.built
     /\ ChainScenario
     /\ ~Port_can_see(devices.values[1].ports["p2"], devices.values[0].mac)
     /\ ~SeenBehindBack("m2")) =>
        ExpireSet_iter(graph.pruned[0].ports["p1"].visible) = {"m2"}

\* The adjacency edges emitted for the records i and j.
EdgesOfPair(i, j) ==
    {e \in 1..Len(graph.edges) :
        /\ graph.edges[e].kind = "adjacency"
        /\ graph.edges[e].pair \in {<<i, j>>, <<j, i>>}}

\* Node n is the endpoint the rule gives record i towards record j: a port
\* node of i whose pruned set holds a MAC of j if i has such a port, else
\* the device node of i.
RightEndpoint(n, i, j) ==
    LET device == graph.pruned[i]
        other == graph.pruned[j]
        node == graph.nodes[n]
    IN  IF \E p \in DOMAIN device.ports : Port_can_see(device.ports[p], other.mac)
        THEN /\ node.kind = "port"
             /\ node.dev = i
             /\ node.port \in DOMAIN device.ports
             /\ Port_can_see(device.ports[node.port], other.mac)
        ELSE node.kind = "device" /\ node.dev = i

\* C6: for every unordered pair of distinct devices the build emits exactly
\* one adjacency edge; its endpoint on each side is a port node of that
\* device whose post-pruning set holds a MAC of the other device when such
\* a port exists, else the device node itself; the nodes exist.
C6_OneEdgePerPair ==
    graph.built =>
        /\ ~graph.panic
        /\ \A i, j \in DOMAIN graph.pruned :
              i < j =>
                /\ Cardinality(EdgesOfPair(i, j)) = 1
                /\ \A e \in EdgesOfPair(i, j) :
                      LET edge == graph.edges[e]
                      IN  /\ edge.a \in 1..Len(graph.nodes)
                          /\ edge.b \in 1..Len(graph.nodes)
                          /\ RightEndpoint(edge.a, edge.pair[1], edge.pair[2])
                          /\ RightEndpoint(edge.b, edge.pair[2], edge.pair[1])

\* On well-formed configurations every pair gets its edge at the endpoints
\* the rule gives.
WellFormedOneEdgePerPair == WellFormed => C6_OneEdgePerPair

\* One completed poll cycle in which d1.p1's collector reported d2's MAC
\* and d2.p1's collector d1's MAC, followed by a build.
E2EScenario ==
    /\ config = E2EConfig
    /\ CycleDone
    /\ polls = 1
    /\ hist.reported = {<<1, "p1", "m2">>, <<2, "p1", "m1">>}
    /\ graph.built

\* The numbers of the nodes of the given kind made for port p of record i.
NodesOf(kind, i, p) ==
    {n \in 1..Len(graph.nodes) :
        graph.nodes[n] = Node(kind, i, p, graph.nodes[n].count)}

\* C7: in the end-to-end scenario the graph holds exactly one edge that
\* connects d1.p1 and d2.p1 and no aggregate node.
C7_EndToEnd ==
    E2EScenario =>
        /\ ~graph.panic
        /\ Cardinality(NodesOf("port", 0, "p1")) = 1
        /\ Cardinality(NodesOf("port", 1, "p1")) = 1
        /\ Cardinality({e \in 1..Len(graph.edges) :
                {graph.edges[e].a, graph.edges[e].b} \subseteq
                    NodesOf("port", 0, "p1") \cup NodesOf("port", 1, "p1")
                /\ graph.edges[e].a # graph.edges[e].b}) = 1
        /\ \A n \in 1..Len(graph.nodes) : graph.nodes[n].kind # "aggregate"

\* C7 witness: the end-to-end scenario, built.
C7_Witness == E2EScenario /\ Len(graph.edges) = 3

\* The MACs port k sees after pruning that are no key of the device index.
Unconfigured(k) ==
    {mac \in ExpireSet_iter(graph.pruned[k[1]].ports[k[2]].visible) :
        ~MultiMap_contains_key(devices, mac)}

\* C8: the build emits an aggregate node for a port iff its post-pruning
\* set holds a MAC that is no key of a configured device; there is then
\* exactly one, labelled with the number of such MACs and joined to the
\* port's node by exactly one edge.
C8_AggregatePerPort ==
    graph.built =>
        \A k \in PortKeys(devices) :
            LET aggs == NodesOf("aggregate", k[1], k[2])
            IN  /\ (aggs # {}) <=> (Unconfigured(k) # {})
                /\ aggs # {} =>
                    /\ Cardinality(aggs) = 1
                    /\ \A n \in aggs :
                          /\ graph.nodes[n].count = Cardinality(Unconfigured(k))
                          /\ Cardinality({e \in 1..Len(graph.edges) :
                                n \in {graph.edges[e].a, graph.edges[e].b}}) = 1
                          /\ \A e \in 1..Len(graph.edges) :
                                n \in {graph.edges[e].a, graph.edges[e].b} =>
                                    {graph.edges[e].a, graph.edges[e].b} \ {n}
                                        \subseteq NodesOf("port", k[1], k[2])
                                    /\ graph.edges[e].a # graph.edges[e].b

\* On well-formed configurations the aggregate of a port is joined to that
\* port's node.
WellFormedAggregatePerPort == WellFormed => C8_AggregatePerPort

\* C9: for an index holding N records, visit_pairs calls its callback
\* exactly N*(N-1)/2 times: once for every unordered pair of distinct
\* records, never twice for a pair, never a record with itself, however
\* many keys map to each record.
C9_VisitPairsOncePerPair ==
    mmVisits # NotVisited =>
        LET N == Cardinality(MultiMap_values(mm))
            calls == mmVisits
        IN  /\ 2 * Len(calls) = N * (N - 1)
            /\ \A i \in 1..Len(calls) :
                  /\ calls[i][1] # calls[i][2]
                  /\ {calls[i][1], calls[i][2]} \subseteq MultiMap_values(mm)
            /\ \A a, b \in MultiMap_values(mm) :
                  a # b =>
                    Cardinality({i \in 1..Len(calls) :
                        {calls[i][1], calls[i][2]} = {a, b}}) = 1

\* C9 witness: visit_pairs has run on three records, one reachable by two
\* keys and one by none.
C9_Witness ==
    /\ mmVisits # NotVisited
    /\ Len(mmVisits) = 3
    /\ \E a, b \in MultiMap_values(mm) :
          /\ Cardinality({k \in DOMAIN mm.indexes : mm.indexes[k] = a}) >= 2
          /\ {k \in DOMAIN mm.indexes : mm.indexes[k] = b} = {}

\* C10: get(k) returns the record of the most recent insertion that listed
\* k, with the data last written to that record through any of its keys;
\* get on a key never supplied returns not-found; every inserted record,
\* also one without a key left, is stored and yielded by values().
C10_AliasingAndShadowing ==
    /\ \A k \in Keys :
          IF mmLast[k] = -1
          THEN MultiMap_get(mm, k) = None
          ELSE MultiMap_get(mm, k) =
                    Some([tag |-> mmLast[k], data |-> mmData[mmLast[k]]])
    /\ {mm.values[i].tag : i \in MultiMap_values(mm)} = 0..(mmCount - 1)
    /\ Cardinality(MultiMap_values(mm)) = mmCount

\* C10 witness: a record whose keys were all shadowed is still stored, the
\* shadowing record is reached by two keys and was written through one.
C10_Witness ==
    /\ mmCount >= 2
    /\ \E i \in MultiMap_values(mm) :
          /\ mm.values[i].tag = 0
          /\ \A k \in Keys : mmLast[k] # 0
    /\ mmLast["k1"] = mmLast["k2"]
    /\ mmLast["k1"] = 1
    /\ mmLast["k3"] = -1
    /\ MultiMap_get(mm, "k2").some
    /\ MultiMap_get(mm, "k2").value.data # "x"
    /\ mm.values[0].data = "x"

----------------------------------------------------------------------------
(* Claims about errors, frames and determinism.                            *)

\* The device index without the port sets: the key bindings, the next
\* identity, and per record its id, MAC list and port ids.
IndexShape(m) ==
    [next_index |-> m.next_index,
     indexes |-> m.indexes,
     records |-> [i \in DOMAIN m.values |->
                    [id |-> m.values[i].id, mac |-> m.values[i].mac,
                     ports |-> DOMAIN m.values[i].ports]]]

\* C11: when a collector fails, poll returns the error at that step with
\* the port sets exactly as the earlier steps of the cycle left them (no
\* merge is rolled back), and until the next cycle is started no collector
\* runs and no port is swept or modified; the records and key bindings of
\* the device index are those Network::new built.
C11_ErrorAbortsWithoutRollback ==
    [][/\ (result = "running" /\ result' = "err") =>
            /\ devices' = devices
            /\ pc' = "idle"
            /\ hist'.reported = hist.reported
            /\ hist'.sweeps = hist.sweeps
       /\ (result = "err" /\ polls' = polls) =>
            /\ devices' = devices
            /\ pc' = "idle"
            /\ result' = "err"
            /\ hist' = hist
       /\ result' = "err" => IndexShape(devices') = IndexShape(Network_new(config))
      ]_vars

\* C11 witness: a cycle ended with an error after a collector's report was
\* merged, and the reported MAC is in the port's set.
C11_Witness ==
    /\ result = "err"
    /\ pc = "idle"
    /\ WellFormed
    /\ \E r \in hist.reported :
          ExpireSet_contains(devices.values[RecordOf(r[1])].ports[r[2]].visible, r[3])
    /\ \E di \in 1..Len(config) : \E p \in ConfiguredPorts(di) :
          <<RecordOf(di), p>> \notin DOMAIN hist.sweeps

\* C12: a build leaves the polled state as it was: every record, port and
\* visible set with its expiries, and everything else a poll cycle reads
\* (configuration, clock, position), so the cycle that follows a build
\* starts from the state it would start from without the build.
C12_MapLeavesPolledState ==
    [][Map => /\ devices' = devices
              /\ UNCHANGED <<now, config, hashSeed, pc, pos, result, polls, hist>>
      ]_vars

\* C12 witness: a build after a poll cycle whose first pass removed a MAC
\* from its working copy, while the polled port still holds it.
C12_Witness ==
    /\ graph.built
    /\ polls >= 1
    /\ \E k \in PortKeys(devices) : \E mac \in Macs :
          /\ ExpireSet_contains(devices.values[k[1]].ports[k[2]].visible, mac)
          /\ ~ExpireSet_contains(graph.pruned[k[1]].ports[k[2]].visible, mac)

\* C13: in every state the poll cycles of a Network can leave behind, map
\* produces a graph: no device-node or port-node lookup of the adjacency
\* and aggregate passes comes back empty, and every edge joins two nodes
\* of the graph.
C13_MapTotal ==
    graph.built =>
        /\ ~graph.panic
        /\ \A e \in 1..Len(graph.edges) :
              {graph.edges[e].a, graph.edges[e].b} \subseteq 1..Len(graph.nodes)

\* C13 witness: a graph built after a poll cycle from a state with an
\* empty port and a port that sees a MAC of its own device, two devices
\* joined by an adjacency edge.
C13_Witness ==
    /\ graph.built
    /\ ~graph.panic
    /\ polls >= 1
    /\ \E e \in 1..Len(graph.edges) : graph.edges[e].kind = "adjacency"
    /\ \E k \in PortKeys(devices) :
          ExpireSet_is_empty(devices.values[k[1]].ports[k[2]].visible)
    /\ \E k \in PortKeys(devices) :
          Port_can_see(devices.values[k[1]].ports[k[2]], devices.values[k[1]].mac)

\* The records the polled index resolves a MAC seen by port k to.
OwnersSeenBy(k) ==
    {MultiMap_index(devices, mac).value :
        mac \in {x \in ExpireSet_iter(devices.values[k[1]].ports[k[2]].visible) :
                    MultiMap_index(devices, x).some}}

\* The MACs seen, in the polled state, by the ports of those records that
\* see no MAC of the device of port k.
SeenByUnconfirmed(k) ==
    UNION {ExpireSet_iter(devices.values[j].ports[q].visible) :
            <<j, q>> \in {x \in PortKeys(devices) :
                /\ x[1] \in OwnersSeenBy(k)
                /\ ~Port_can_see(devices.values[x[1]].ports[x[2]],
                                 devices.values[k[1]].mac)}}

\* C14: for every port P of every device D the first pass leaves
\* original(P) minus the union of original(P') over the ports P' of the
\* devices owning a MAC of original(P) that see no MAC of D, everything
\* read from the polled state; the result is the same for every order in
\* which devices, ports and MACs are iterated.
C14_PrunedFromSnapshot ==
    graph.built =>
        \A k \in PortKeys(devices) :
            graph.pruned[k[1]].ports[k[2]].visible =
                {ei \in devices.values[k[1]].ports[k[2]].visible :
                    ei.item \notin SeenByUnconfirmed(k)}

\* C14 witness: a build of the chain in which two ports of different
\* devices each lost a MAC in the first pass.
C14_Witness ==
    /\ graph.built
    /\ config = ChainConfig
    /\ \E k1, k2 \in PortKeys(devices) :
          /\ k1[1] # k2[1]
          /\ graph.pruned[k1[1]].ports[k1[2]].visible #
                devices.values[k1[1]].ports[k1[2]].visible
          /\ graph.pruned[k2[1]].ports[k2[2]].visible #
                devices.values[k2[1]].ports[k2[2]].visible
          /\ k2[1] \in OwnersSeenBy(k1)

\* C15 as stated: when a device-scoped collector is invoked, every
\* configured port of every configured device has been swept and has had
\* its port-scoped collectors run and merged.
C15_PortStepBeforeDeviceStep == hist.early = {}

\* C15, amended: when a device-scoped collector of a device is invoked, the
\* configured ports of that device and of the devices configured before it
\* have been swept and polled; those not through yet belong to devices
\* configured after it.
C15_PortStepBeforeOwnDeviceStep ==
    \A e \in hist.early : e[2] > e[1]

\* C15 witness: a completed cycle of the switch configuration: the
\* device-scoped collector of the first device ran while the port of the
\* second device was still to be swept.
C15_Witness ==
    /\ config = SwitchConfig
    /\ CycleDone
    /\ hist.early = {<<1, 2, 1>>}
    /\ hist.done = AllConfigPorts

VisibleOf(m, k) == m.values[k[1]].ports[k[2]].visible

\* C17: in a step in which a device-scoped collector reported a set under
\* a port id its device does not have, no port is created, the cycle goes
\* on, the only entries that appear in any port of any device are those
\* reported in that step under the id of that very port of this device,
\* nothing disappears, and what the step reported under matching ids is in
\* those ports.
C17_UnmatchedPortIdDropped ==
    [][hist'.unmatched \ hist.unmatched # {} =>
        /\ result' = "running"
        /\ pc' = "device_poller"
        /\ IndexShape(devices') = IndexShape(devices)
        /\ \A k \in PortKeys(devices) :
              /\ ExpireSet_iter(VisibleOf(devices, k)) \subseteq
                    ExpireSet_iter(VisibleOf(devices', k))
              /\ \A mac \in ExpireSet_iter(VisibleOf(devices', k)) \
                              ExpireSet_iter(VisibleOf(devices, k)) :
                    /\ k[1] = pos.cur
                    /\ <<pos.di, k[2], mac>> \in hist'.reported
                    /\ <<pos.di, k[2], mac>> \notin hist'.unmatched
        /\ \A r \in hist'.reported \ hist.reported :
              ExpireSet_contains(VisibleOf(devices', <<pos.cur, r[2]>>), r[3])
      ]_vars

\* C17 witness: a completed cycle in which the device-scoped collector of
\* the switch reported m2 under the unknown port id px and u1 under p2:
\* p2 holds u1, m2 is in no port of the switch, which has its two ports.
C17_Witness ==
    /\ config = SwitchConfig
    /\ CycleDone
    /\ <<1, "px", "m2">> \in hist.unmatched
    /\ <<1, "p2", "u1">> \in hist.reported
    /\ ExpireSet_contains(VisibleOf(devices, <<0, "p2">>), "u1")
    /\ DOMAIN devices.values[0].ports = {"p1", "p2"}
    /\ \A p \in {"p1", "p2"} : ~ExpireSet_contains(VisibleOf(devices, <<0, p>>), "m2")

\* What a graph holds, apart from the numbers node_auto gave the nodes and
\* the order of emission: the nodes, and the edges by the nodes they join.
GraphContent(g) ==
    [panic |-> g.panic,
     nodes |-> {g.nodes[n] : n \in 1..Len(g.nodes)},
     edges |-> {[kind |-> g.edges[e].kind,
                 ends |-> {g.nodes[g.edges[e].a], g.nodes[g.edges[e].b]}] :
                    e \in 1..Len(g.edges)},
     size |-> <<Len(g.nodes), Len(g.edges)>>]

\* The ports of pruned record i that see a MAC of pruned record j.
PortsSeeing(i, j) ==
    {p \in DOMAIN graph.pruned[i].ports :
        Port_can_see(graph.pruned[i].ports[p], graph.pruned[j].mac)}

\* No device has two ports that see the same other device, and no two
\* devices have the same id.
NoChoice ==
    \A i, j \in DOMAIN graph.pruned :
        i # j => /\ Cardinality(PortsSeeing(i, j)) <= 1
                 /\ graph.pruned[i].id # graph.pruned[j].id

\* C18 as stated: the graph is a function of the polled state alone: a
\* build over the same state yields the same nodes and the same edges
\* between the same endpoints whatever order the maps iterate in, also
\* when several ports of a device see the other device of a pair.
C18_BuildDeterministic ==
    graph.built =>
        \A seed \in Seeds :
            GraphContent(Network_map(devices, seed)) = GraphContent(graph)

\* C18, amended: a further build by the same Network over the same polled
\* state yields the same graph; for any other iteration order the build
\* yields the same nodes, and the same edges too provided no device has
\* several ports that see the same other device (and ids are unique).
C18_BuildDeterministicPerOrder ==
    graph.built =>
        /\ Network_map(devices, hashSeed) = graph
        /\ \A seed \in Seeds \ {hashSeed} :
              LET other == GraphContent(Network_map(devices, seed))
              IN  /\ other.nodes = GraphContent(graph).nodes
                  /\ NoChoice => other = GraphContent(graph)

\* C18 witness: a build in which two ports of d1 both see d2 after
\* pruning, and a port of d2 sees d1.
C18_Witness ==
    /\ graph.built
    /\ config = MixedConfig
    /\ PortsSeeing(0, 1) = {"p1", "p2"}
    /\ PortsSeeing(1, 0) = {"p1"}

\* The keys bound to the record of identity i.
KeysOf(i) == {k \in DOMAIN mm.indexes : mm.indexes[k] = i}

\* C19: after any sequence of insertions every insertion has an identity
\* of its own, larger than the identities of the insertions before it and
\* smaller than the next one to be minted; the number of stored records
\* equals the number of insertions; values() yields each inserted record
\* once, whether zero, one or many keys map to it; every key binding
\* refers to a stored record.
C19_IndexIdentity ==
    /\ \A i, j \in MultiMap_values(mm) :
          /\ mm.values[i].tag < mm.values[j].tag => i < j
          /\ mm.values[i].tag = mm.values[j].tag => i = j
    /\ \A i \in MultiMap_values(mm) : i < mm.next_index
    /\ Cardinality(MultiMap_values(mm)) = mmCount
    /\ \A t \in 0..(mmCount - 1) :
          Cardinality({i \in MultiMap_values(mm) : mm.values[i].tag = t}) = 1
    /\ \A k \in DOMAIN mm.indexes : mm.indexes[k] \in MultiMap_values(mm)

\* C19 witness: three insertions, after which one record has no key, one
\* has one key and one has two.
C19_Witness ==
    /\ mmCount = 3
    /\ \E a, b, c \in MultiMap_values(mm) :
          /\ Cardinality(KeysOf(a)) = 0
          /\ Cardinality(KeysOf(b)) = 1
          /\ Cardinality(KeysOf(c)) = 2

\* C20: whatever the configuration, also with a MAC listed by two devices
\* or a port id listed twice by a device, a poll cycle never ends in a
\* panic, and while it works on a configured device the record it updates
\* is the one Network::new built from that device's configuration, in
\* which every configured port id is found.
C20_PollUsesOwnRecord ==
    /\ result # "panic"
    /\ pc \in {"port", "port_poller", "device_poller"} =>
          /\ pos.cur = RecordOf(pos.di)
          /\ devices.values[pos.cur].id = config[pos.di].id
          /\ \A p \in ConfiguredPorts(pos.di) : <<pos.cur, p>> \in PortKeys(devices)

\* On well-formed configurations the cycle does work on the device's own
\* record and finds every configured port.
WellFormedPollUsesOwnRecord == WellFormed => C20_PollUsesOwnRecord

\* C21: the first pass only removes: for every port the set the later
\* passes use holds no entry the polled set does not hold (the entries
\* left keep their expiries); the working copy has the records, ids, MAC
\* lists, port ids and key bindings of the polled state; and a port that
\* sees no MAC bound in the device index keeps its polled set.
C21_PruningOnlyRemoves ==
    graph.built =>
        /\ DOMAIN graph.pruned = DOMAIN devices.values
        /\ IndexShape(PrunePass(devices, hashSeed)) = IndexShape(devices)
        /\ PrunePass(devices, hashSeed).values = graph.pruned
        /\ \A i \in DOMAIN devices.values :
              /\ graph.pruned[i].id = devices.values[i].id
              /\ graph.pruned[i].mac = devices.values[i].mac
              /\ DOMAIN graph.pruned[i].ports = DOMAIN devices.values[i].ports
        /\ \A k \in PortKeys(devices) :
              /\ graph.pruned[k[1]].ports[k[2]].name = devices.values[k[1]].ports[k[2]].name
              /\ graph.pruned[k[1]].ports[k[2]].visible \subseteq VisibleOf(devices, k)
              /\ OwnersSeenBy(k) = {} =>
                    graph.pruned[k[1]].ports[k[2]].visible = VisibleOf(devices, k)

\* C21 witness: a build in which the first pass took a MAC out of one port
\* and left another MAC in it, while a port that sees unconfigured MACs
\* only kept all of them.
C21_Witness ==
    /\ graph.built
    /\ \E k \in PortKeys(devices) :
          /\ graph.pruned[k[1]].ports[k[2]].visible # {}
          /\ graph.pruned[k[1]].ports[k[2]].visible # VisibleOf(devices, k)
    /\ \E k \in PortKeys(devices) :
          /\ VisibleOf(devices, k) # {}
          /\ OwnersSeenBy(k) = {}
          /\ graph.pruned[k[1]].ports[k[2]].visible = VisibleOf(devices, k)

====
